---------------------------- MODULE Spec2Model ----------------------------
(***************************************************************************)
(* A model of tex2bib.py: Tex2BibConverter extracts the citation keys of   *)
(* tex files, queries them on ADS in batches, writes the bib file and      *)
(* lists the keys that were not retrieved.                                 *)
(*                                                                         *)
(* A Python string is a sequence of one-character strings; the citation    *)
(* command "\cite" is one symbol of such a sequence.  Indices are Python's *)
(* (0-based, -1 for "not found").                                          *)
(***************************************************************************)
EXTENDS Integers, Sequences, FiniteSets, TLC

VARIABLES
    tex_files,      \* self.tex_files: the sources, each [exists, lines]
    fidx,           \* position of the loop over self.tex_files
    lines,          \* the lines of f.readlines() not yet read
    line,           \* the local `line` of _extract_citations
    i,              \* the local `i` of _extract_citations
    bibcodes_set,   \* self.bibcodes while it is a set
    bibcodes,       \* self.bibcodes once sorted (a list)
    max_query,      \* self.max_query
    qi,             \* the loop variable `i` of _query
    sent,           \* the 'bibcode' payloads posted so far, in order
    responses,      \* the outcome of each posted request, in order
    result,         \* self.result
    n_retrieved,    \* self.n_retrieved
    no_amp,         \* self.no_amp
    bib_file,       \* self.bib_file
    fs,             \* the paths that exist in the file system
    user_in,        \* the last answer to the overwrite prompt
    written,        \* the write of the destination file, once done
    missing,        \* the printed list of missing bibcodes
    warnings,       \* the bibcodes of the printed cross-check warnings
    ret,            \* the value _check_missing returned
    pc              \* the position of the run

vars == <<tex_files, fidx, lines, line, i, bibcodes_set, bibcodes, max_query,
          qi, sent, responses, result, n_retrieved, no_amp, bib_file, fs,
          user_in, written, missing, warnings, ret, pc>>

extractVars == <<tex_files, fidx, lines, line, i, bibcodes_set>>
queryVars   == <<qi, sent, responses, result, n_retrieved>>
writeVars   == <<bib_file, fs, user_in, written>>
checkVars   == <<missing, warnings, ret>>

-----------------------------------------------------------------------------
(* Bounds of the model.                                                    *)

MaxPieces  == 4     \* pieces of text a generated tex line is made of
MaxIds     == 3     \* length of the extracted bibcode list of a run
MaxBatch   == 2     \* largest self.max_query
MaxCount   == 3     \* largest retrieved-count of one response
MaxEntries == 3     \* chunks of text in a reconciled result

-----------------------------------------------------------------------------
(* Python's string operations.                                             *)

CITE == "\\cite"

Min(a, b) == IF a < b THEN a ELSE b
Max(a, b) == IF a > b THEN a ELSE b

\* ord(c) of the characters the model uses; "\cite" starts with a backslash.
Ord(c) ==
    CASE c = "\n" -> 10  [] c = " " -> 32  [] c = "&" -> 38  [] c = "," -> 44
      [] c = "@" -> 64   [] c = "A" -> 65  [] c = CITE -> 92 [] c = "a" -> 97
      [] c = "b" -> 98   [] c = "c" -> 99  [] c = "d" -> 100 [] c = "t" -> 116
      [] c = "x" -> 120
      [] c = "{" -> 123  [] c = "}" -> 125

\* s.find(c, start)
Find(s, c, start) ==
    LET hits == {p \in start..(Len(s) - 1) : s[p + 1] = c}
    IN  IF hits = {} THEN -1 ELSE CHOOSE p \in hits : \A q \in hits : p <= q

\* s[lo:hi], a negative index counting from the end
PySlice(s, lo, hi) ==
    LET n    == Len(s)
        a    == IF lo < 0 THEN Max(lo + n, 0) ELSE Min(lo, n)
        b    == IF hi < 0 THEN Max(hi + n, 0) ELSE Min(hi, n)
    IN  SubSeq(s, a + 1, b)

\* s.split(sep), sep one character
RECURSIVE Split(_, _)
Split(s, sep) ==
    LET k == Find(s, sep, 0)
    IN  IF k = -1 THEN <<s>>
        ELSE <<PySlice(s, 0, k)>> \o Split(PySlice(s, k + 1, Len(s)), sep)

IsSpace(c) == c \in {" ", "\n"}

\* s.strip()
RECURSIVE Strip(_)
Strip(s) ==
    IF s = <<>> THEN s
    ELSE IF IsSpace(s[1]) THEN Strip(Tail(s))
    ELSE IF IsSpace(s[Len(s)]) THEN Strip(SubSeq(s, 1, Len(s) - 1))
    ELSE s

\* a replacement that only expands a token equal to 'AA'
ReplaceWholeToken(s) == IF s = <<"A", "A">> THEN <<"A", "&", "A">> ELSE s

\* s.replace('AA', 'A&A'): every occurrence, left to right, not overlapping
RECURSIVE ReplaceAA(_)
ReplaceAA(s) ==
    IF Len(s) < 2 THEN s
    ELSE IF s[1] = "A" /\ s[2] = "A"
         THEN <<"A", "&", "A">> \o ReplaceAA(SubSeq(s, 3, Len(s)))
         ELSE <<s[1]>> \o ReplaceAA(Tail(s))

\* s.replace('&', '')
RemoveAmp(s) == SelectSeq(s, LAMBDA c : c # "&")

\* s < t for Python strings
RECURSIVE StrLess(_, _)
StrLess(s, t) ==
    IF t = <<>> THEN FALSE
    ELSE IF s = <<>> THEN TRUE
    ELSE IF s[1] # t[1] THEN Ord(s[1]) < Ord(t[1])
    ELSE StrLess(Tail(s), Tail(t))

\* sorted(S) of a set of strings
RECURSIVE Sorted(_)
Sorted(S) ==
    IF S = {} THEN <<>>
    ELSE LET m == CHOOSE x \in S : \A y \in S \ {x} : StrLess(x, y)
         IN  <<m>> \o Sorted(S \ {m})

RECURSIVE Concat(_)
Concat(ss) == IF ss = <<>> THEN <<>> ELSE Head(ss) \o Concat(Tail(ss))

Range(s) == {s[n] : n \in 1..Len(s)}


-----------------------------------------------------------------------------
(* Values before they are set.                                             *)

NoInput == "<no input>"
NoWrite == [path |-> "<none>", existed |-> FALSE, content |-> <<>>]
NoRet   == "<not returned>"

-----------------------------------------------------------------------------
(* _extract_citations                                                      *)

\* line.find('\cite')
FindCite(s) == Find(s, CITE, 0)

\* the bibcodes one pass of the while loop adds: line[j:k] split on commas,
\* each stripped, the empty ones skipped, 'AA' replaced
Refs(s, at) ==
    LET j    == Find(s, "{", at) + 1
        k    == Find(s, "}", at)
        refs == Split(PySlice(s, j, k), ",")
    IN  {Strip(refs[n]) : n \in 1..Len(refs)} \ {<<>>}

AddedRefs(s, at) == {ReplaceAA(ref) : ref \in Refs(s, at)}

\* line[k+1:]
RestOfLine(s, at) == PySlice(s, Find(s, "}", at) + 1, Len(s))

\* for tex_file in self.tex_files: the file exists and is read
OpenTexFile ==
    /\ pc = "files"
    /\ fidx <= Len(tex_files)
    /\ tex_files[fidx].exists
    /\ lines' = tex_files[fidx].lines
    /\ pc' = "lines"
    /\ UNCHANGED <<tex_files, fidx, line, i, bibcodes_set, bibcodes, max_query>>
    /\ UNCHANGED <<queryVars, writeVars, checkVars, no_amp>>

\* for tex_file in self.tex_files: the file does not exist (a warning)
SkipTexFile ==
    /\ pc = "files"
    /\ fidx <= Len(tex_files)
    /\ ~tex_files[fidx].exists
    /\ fidx' = fidx + 1
    /\ UNCHANGED <<tex_files, lines, line, i, bibcodes_set, bibcodes, max_query, pc>>
    /\ UNCHANGED <<queryVars, writeVars, checkVars, no_amp>>

\* for line in f.readlines(): i = line.find('\cite')
ReadLine ==
    /\ pc = "lines"
    /\ lines # <<>>
    /\ line' = Head(lines)
    /\ lines' = Tail(lines)
    /\ i' = FindCite(Head(lines))
    /\ pc' = "while"
    /\ UNCHANGED <<tex_files, fidx, bibcodes_set, bibcodes, max_query>>
    /\ UNCHANGED <<queryVars, writeVars, checkVars, no_amp>>

\* the lines of the file are exhausted
CloseTexFile ==
    /\ pc = "lines"
    /\ lines = <<>>
    /\ fidx' = fidx + 1
    /\ pc' = "files"
    /\ UNCHANGED <<tex_files, lines, line, i, bibcodes_set, bibcodes, max_query>>
    /\ UNCHANGED <<queryVars, writeVars, checkVars, no_amp>>

\* while i > -1: the test
WhileTest ==
    /\ pc = "while"
    /\ pc' = IF i > -1 THEN "body" ELSE "lines"
    /\ UNCHANGED <<tex_files, fidx, lines, line, i, bibcodes_set, bibcodes, max_query>>
    /\ UNCHANGED <<queryVars, writeVars, checkVars, no_amp>>

\* the body of the while loop
ScanMarker ==
    /\ pc = "body"
    /\ bibcodes_set' = bibcodes_set \cup AddedRefs(line, i)
    /\ line' = RestOfLine(line, i)
    /\ i' = FindCite(RestOfLine(line, i))
    /\ pc' = "while"
    /\ UNCHANGED <<tex_files, fidx, lines, bibcodes, max_query>>
    /\ UNCHANGED <<queryVars, writeVars, checkVars, no_amp>>

\* self.bibcodes = sorted(self.bibcodes)
SortBibcodes ==
    /\ pc = "files"
    /\ fidx > Len(tex_files)
    /\ bibcodes' = Sorted(bibcodes_set)
    /\ pc' = "query"
    /\ UNCHANGED <<extractVars, max_query>>
    /\ UNCHANGED <<queryVars, writeVars, checkVars, no_amp>>

\* The tex lines the extraction is run on: up to MaxPieces pieces of text.
Pieces == {<<CITE, "{">>, <<CITE>>, <<"}">>, <<",">>, <<" ">>, <<"A", "A">>,
           <<"A">>, <<"b">>}

TexFile(ls)  == [exists |-> TRUE, lines |-> ls]
MissingFile  == [exists |-> FALSE, lines |-> <<>>]
OtherLine    == <<CITE, "{", "b", "}", "\n">>

\* one line alone (the last line of a file may lack its newline), after a
\* source that does not exist, before another line and another file
TexInputs(b) ==
    { <<TexFile(<<b>>)>>,
      <<MissingFile, TexFile(<<b \o <<"\n">> >>)>>,
      <<TexFile(<<b \o <<"\n">>, OtherLine>>), TexFile(<<OtherLine>>)>> }

\* __init__, but for the sources and self.max_query
InitFields ==
    /\ fidx = 1
    /\ lines = <<>>
    /\ line = <<>>
    /\ i = -1
    /\ bibcodes_set = {}
    /\ bibcodes = <<>>
    /\ qi = 0
    /\ sent = <<>>
    /\ responses = <<>>
    /\ result = <<>>
    /\ n_retrieved = 0
    /\ user_in = NoInput
    /\ written = NoWrite
    /\ missing = <<>>
    /\ warnings = <<>>
    /\ ret = NoRet

InitExtract ==
    /\ InitFields
    /\ \E n \in 0..MaxPieces : \E ps \in [1..n -> Pieces] :
          tex_files \in TexInputs(Concat(ps))
    /\ max_query = MaxBatch
    /\ no_amp = FALSE
    /\ bib_file = "references.bib"
    /\ fs = {}
    /\ pc = "files"

NextExtract ==
    \/ OpenTexFile
    \/ SkipTexFile
    \/ ReadLine
    \/ CloseTexFile
    \/ WhileTest
    \/ ScanMarker
    \/ SortBibcodes

SpecExtract == InitExtract /\ [][NextExtract]_vars /\ WF_vars(NextExtract)

-----------------------------------------------------------------------------
(* The claims about _extract_citations, checked under SpecExtract.         *)

\* the number of 'A's that directly precede position p of t
AsBefore(t, p) ==
    Cardinality({q \in 1..(p - 1) : \A r \in q..(p - 1) : t[r] = "A"})

\* t with an '&' put inside every pair of 'A's, the pairs of a run of 'A's
\* counted from the start of the run
Expanded(t) ==
    Concat([p \in 1..Len(t) |->
              IF /\ t[p] = "A"
                 /\ p < Len(t)
                 /\ t[p + 1] = "A"
                 /\ AsBefore(t, p) % 2 = 0
              THEN <<"A", "&">>
              ELSE <<t[p]>>])

HasAA(t) == \E p \in 1..(Len(t) - 1) : t[p] = "A" /\ t[p + 1] = "A"

\* C5, as stated: the substitution is applied exactly to the tokens equal to
\* 'AA'; a longer token that contains 'AA' is added to the identifier set
\* unchanged (stated for the markers that are followed by '{' and then '}').
C5_OnlyWholeToken ==
    [][(pc = "body" /\ Find(line, "{", i) # -1
                   /\ Find(line, "{", i) < Find(line, "}", i)) =>
         \A t \in Refs(line, i) :
            (IF t = <<"A", "A">> THEN <<"A", "&", "A">> ELSE t) \in bibcodes_set']_vars

\* C5, amended: one pass of the scan adds, for every token of the marker,
\* the token with every occurrence of 'AA' (left to right, not overlapping)
\* replaced by 'A&A', also inside a longer token; a token without 'AA' is
\* added unchanged, and nothing else is added.
C5_EveryOccurrence ==
    [][pc = "body" =>
         /\ bibcodes_set' = bibcodes_set \cup {Expanded(t) : t \in Refs(line, i)}
         /\ \A t \in Refs(line, i) : ~HasAA(t) => t \in bibcodes_set']_vars

\* C5's case: a token longer than 'AA' was added with an '&' put into it.
C5_Witness ==
    \E r \in bibcodes_set : Len(r) > 3 /\ "&" \in Range(r) /\ "b" \in Range(r)

\* the identifiers the markers of a line name: for every marker, the tokens
\* between the '{' and the '}' that follow it; a marker without them names
\* nothing
RECURSIVE LineTokens(_)
LineTokens(s) ==
    LET at == FindCite(s)
        o  == Find(s, "{", at)
        c  == Find(s, "}", at)
        body == Split(PySlice(s, o + 1, c), ",")
    IN  IF at = -1 THEN {}
        ELSE IF o = -1 \/ c = -1 \/ c < o
             THEN LineTokens(PySlice(s, at + 1, Len(s)))
             ELSE ({Strip(body[n]) : n \in 1..Len(body)} \ {<<>>})
                    \cup LineTokens(PySlice(s, c + 1, Len(s)))

FileTokens(file) ==
    UNION {LineTokens(file.lines[l]) : l \in 1..Len(file.lines)}

InputTokens ==
    UNION {FileTokens(tex_files[f]) :
             f \in {g \in 1..Len(tex_files) : tex_files[g].exists}}

\* C8, as stated: extraction leaves self.bibcodes the sorted, duplicate-free
\* sequence of the trimmed, non-empty tokens in the brace body of every
\* marker of every existing source (each with the substitution of C5), so
\* that it is a function of the input alone.
C8_SortedTokensOfMarkers ==
    pc = "query" => bibcodes = Sorted({Expanded(t) : t \in InputTokens})

\* C9, as stated: every pass of the per-line scan moves past the closing
\* brace of the marker it handled, so the text left to scan gets strictly
\* shorter.
C9_ScanShrinksLine ==
    [][pc = "body" => Len(line') < Len(line)]_vars

\* C9, as stated, in full: the scan of every line ends, so the extraction
\* reaches the sort of the identifier set.
C9_ExtractionTerminates == <>(pc = "query")

\* C10, as stated: a marker that is not followed on its line by a '{' or by
\* a '}' adds no identifier to the identifier set.
C10_MalformedAddsNothing ==
    [][(pc = "body" /\ (Find(line, "{", i) = -1 \/ Find(line, "}", i) = -1))
         => bibcodes_set' = bibcodes_set]_vars

-----------------------------------------------------------------------------
(* _prep_query and _query                                                  *)

\* query['bibcode'] of the payload of a batch: self.bibcodes[i:j]
PrepQueryOverlap(at) == PySlice(bibcodes, at, at + max_query + 1)

PrepQuery(at) == PySlice(bibcodes, at, at + max_query)

\* n = len(self.bibcodes) // self.max_query + 1
NumBatches == (Len(bibcodes) \div max_query) + 1

\* the text of one retrieved entry: its '@'-header line and a field line
Entry(key) == <<"@", "{">> \o key \o <<",", "\n", " ", "t", "\n">>

\* what 'export' of a response may hold in a run
Exports == {<<>>, Entry(<<"A", "&", "A">>)}

\* a batch is posted and the service answers with a success status:
\* the retrieved-count of 'msg' and the text of 'export' are accumulated
QueryBatch ==
    /\ pc = "query"
    /\ qi < NumBatches
    /\ \E count \in 0..MaxCount, export \in Exports :
         /\ sent' = Append(sent, PrepQuery(qi * max_query))
         /\ responses' = Append(responses, "ok")
         /\ result' = result \o export
         /\ n_retrieved' = n_retrieved + count
    /\ qi' = qi + 1
    /\ UNCHANGED <<extractVars, bibcodes, max_query, pc>>
    /\ UNCHANGED <<writeVars, checkVars, no_amp>>

\* a posted batch whose failure is swallowed: the loop goes on
QueryBatchFailsIgnored ==
    /\ pc = "query"
    /\ qi < NumBatches
    /\ sent' = Append(sent, PrepQuery(qi * max_query))
    /\ responses' = Append(responses, "error")
    /\ qi' = qi + 1
    /\ UNCHANGED <<extractVars, bibcodes, max_query, pc, result, n_retrieved>>
    /\ UNCHANGED <<writeVars, checkVars, no_amp>>

\* a batch is posted and the service answers with an error status:
\* response.raise_for_status() raises, and nothing in _query or run catches it
QueryBatchFails ==
    /\ pc = "query"
    /\ qi < NumBatches
    /\ sent' = Append(sent, PrepQuery(qi * max_query))
    /\ responses' = Append(responses, "error")
    /\ pc' = "aborted"
    /\ UNCHANGED <<extractVars, bibcodes, max_query, qi, result, n_retrieved>>
    /\ UNCHANGED <<writeVars, checkVars, no_amp>>

\* for i in range(n) is exhausted: _query returns and run calls _write
QueryDone ==
    /\ pc = "query"
    /\ qi = NumBatches
    /\ pc' = "write"
    /\ UNCHANGED <<extractVars, bibcodes, max_query>>
    /\ UNCHANGED <<queryVars, writeVars, checkVars, no_amp>>

-----------------------------------------------------------------------------
(* _write                                                                  *)

Paths == {"references.bib", "other.bib"}

\* what f.write(result) writes
Written == [path    |-> bib_file,
            existed |-> bib_file \in fs,
            content |-> IF no_amp THEN RemoveAmp(result) ELSE result]

\* an answer that is taken as the destination and written with no new check
AskRenameAndWrite ==
    /\ pc = "write"
    /\ bib_file \in fs
    /\ \E answer \in Paths :
         /\ user_in' = answer
         /\ bib_file' = answer
         /\ written' = [Written EXCEPT !.path = answer, !.existed = answer \in fs]
         /\ fs' = fs \cup {answer}
    /\ pc' = "check"
    /\ UNCHANGED <<extractVars, bibcodes, max_query>>
    /\ UNCHANGED <<queryVars, checkVars, no_amp>>

\* the destination exists and the prompt is answered with a file name:
\* self.bib_file = user_in, and the loop tests the new path
AskRename ==
    /\ pc = "write"
    /\ bib_file \in fs
    /\ \E answer \in Paths :
         /\ user_in' = answer
         /\ bib_file' = answer
    /\ UNCHANGED <<extractVars, bibcodes, max_query, pc, fs, written>>
    /\ UNCHANGED <<queryVars, checkVars, no_amp>>

\* the destination exists and the prompt is answered with Enter: break,
\* and the file is opened for writing
AskOverwrite ==
    /\ pc = "write"
    /\ bib_file \in fs
    /\ user_in' = ""
    /\ written' = Written
    /\ pc' = "check"
    /\ UNCHANGED <<extractVars, bibcodes, max_query, bib_file, fs>>
    /\ UNCHANGED <<queryVars, checkVars, no_amp>>

\* the destination does not exist: no prompt, the file is opened for writing
WriteNew ==
    /\ pc = "write"
    /\ bib_file \notin fs
    /\ written' = Written
    /\ fs' = fs \cup {bib_file}
    /\ pc' = "check"
    /\ UNCHANGED <<extractVars, bibcodes, max_query, bib_file, user_in>>
    /\ UNCHANGED <<queryVars, checkVars, no_amp>>

-----------------------------------------------------------------------------
(* _check_missing                                                          *)

\* a key that keeps the last character of the line
HeaderKeyToEnd(l) == PySlice(l, Find(l, "{", 0) + 1, Len(l))

\* i = line.find('{') + 1; bibcode = line[i:-1]
HeaderKey(l) == PySlice(l, Find(l, "{", 0) + 1, -1)

\* not (len(line) == 0 or line[0] != '@')
IsHeader(l) == Len(l) # 0 /\ l[1] = "@"

\* list.remove(x), x in the list
RemoveFirst(list, x) ==
    LET at == CHOOSE n \in 1..Len(list) :
                 list[n] = x /\ \A m \in 1..(n - 1) : list[m] # x
    IN  SubSeq(list, 1, at - 1) \o SubSeq(list, at + 1, Len(list))

\* the loop over self.result.split('\n'): the working copy and the warnings
RECURSIVE Reconcile(_, _, _)
Reconcile(ls, working, warned) ==
    IF ls = <<>> THEN [missing |-> working, warnings |-> warned]
    ELSE IF ~IsHeader(Head(ls)) THEN Reconcile(Tail(ls), working, warned)
    ELSE IF HeaderKey(Head(ls)) \in Range(working)
         THEN Reconcile(Tail(ls), RemoveFirst(working, HeaderKey(Head(ls))), warned)
         ELSE Reconcile(Tail(ls), working, Append(warned, HeaderKey(Head(ls))))

CheckMissing ==
    /\ pc = "check"
    /\ IF n_retrieved = Len(bibcodes)
       THEN /\ ret' = "True"
            /\ UNCHANGED <<missing, warnings>>
       ELSE LET r == Reconcile(Split(result, "\n"), bibcodes, <<>>)
            IN  /\ missing' = r.missing
                /\ warnings' = r.warnings
                /\ ret' = "False"
    /\ pc' = "done"
    /\ UNCHANGED <<extractVars, bibcodes, max_query>>
    /\ UNCHANGED <<queryVars, writeVars, no_amp>>

-----------------------------------------------------------------------------
(* run, from the end of _extract_citations                                 *)

Ids == {<<"a">>, <<"b">>, <<"c">>, <<"d">>}

\* the lists _extract_citations can leave: sorted, without duplicates
BibcodeLists == {Sorted(S) : S \in {T \in SUBSET Ids : Cardinality(T) <= MaxIds}}

\* sources the bibcodes of a list are extracted from
TexOf(codes) ==
    <<TexFile([n \in 1..Len(codes) |-> <<CITE, "{">> \o codes[n] \o <<"}", "\n">>])>>

Extracted(codes) ==
    /\ tex_files = TexOf(codes)
    /\ fidx = 2
    /\ lines = <<>>
    /\ line = <<>>
    /\ i = -1
    /\ bibcodes_set = Range(codes)
    /\ bibcodes = codes

Init ==
    /\ \E codes \in BibcodeLists : Extracted(codes)
    /\ max_query \in 1..MaxBatch
    /\ no_amp \in BOOLEAN
    /\ bib_file = "references.bib"
    /\ fs \in SUBSET Paths
    /\ qi = 0
    /\ sent = <<>>
    /\ responses = <<>>
    /\ result = <<>>
    /\ n_retrieved = 0
    /\ user_in = NoInput
    /\ written = NoWrite
    /\ missing = <<>>
    /\ warnings = <<>>
    /\ ret = NoRet
    /\ pc = "query"

Next ==
    \/ QueryBatch
    \/ QueryBatchFails
    \/ QueryDone
    \/ AskRename
    \/ AskOverwrite
    \/ WriteNew
    \/ CheckMissing

Spec == Init /\ [][Next]_vars

-----------------------------------------------------------------------------
(* _check_missing, from the end of _write                                  *)

\* pieces of the text a response's 'export' may hold: entries of requested
\* and of other keys, a header that ends the text without a newline, a
\* header without a brace
Chunks == {Entry(<<"a">>), Entry(<<"b">>), Entry(<<"x">>),
           <<"@", "{", "a", ",">>, <<"@", "a", ",", "\n">>}

\* a run of one batch (the list is shorter than self.max_query) whose
\* response held this count and this text, written to a new file
InitCheck ==
    /\ \E codes \in BibcodeLists :
         /\ Extracted(codes)
         /\ sent = <<codes>>
    /\ max_query = MaxIds + 1
    /\ qi = 1
    /\ responses = <<"ok">>
    /\ \E n \in 0..MaxEntries : \E cs \in [1..n -> Chunks] :
         /\ result = Concat(cs)
         /\ written = [path |-> "references.bib", existed |-> FALSE,
                       content |-> Concat(cs)]
    /\ n_retrieved \in 0..MaxCount
    /\ no_amp = FALSE
    /\ bib_file = "references.bib"
    /\ fs = {"references.bib"}
    /\ user_in = NoInput
    /\ missing = <<>>
    /\ warnings = <<>>
    /\ ret = NoRet
    /\ pc = "check"

NextCheck == CheckMissing

SpecCheck == InitCheck /\ [][NextCheck]_vars

-----------------------------------------------------------------------------
(* The claims about _query, _write and run, checked under Spec.            *)

Ceil(m, n) == (m + n - 1) \div n

QueryReturned == pc \in {"write", "check", "done"}

\* C1, as stated: a run of _query over M identifiers in batches of N posts
\* exactly ceil(M/N) requests.
C1_CeilBatches ==
    QueryReturned => Len(sent) = Ceil(Len(bibcodes), max_query)

\* C2: the payloads posted so far, concatenated in the order of posting,
\* are the first identifiers of the sorted list, and the whole list once
\* _query has returned; no payload holds more than max_query identifiers;
\* the list is still the sorted identifier set of the extraction.
C2_BatchesPartitionList ==
    /\ bibcodes = Sorted(bibcodes_set)
    /\ \A n \in 1..Len(sent) : Len(sent[n]) <= max_query
    /\ Concat(sent) = SubSeq(bibcodes, 1, Min(Len(sent) * max_query, Len(bibcodes)))
    /\ QueryReturned => Concat(sent) = bibcodes

\* C2's case: a full batch was followed by a shorter, non-empty one.
C2_Witness ==
    /\ QueryReturned
    /\ Len(sent) >= 2
    /\ Len(sent[1]) = max_query
    /\ max_query >= 2
    /\ sent[2] # <<>>
    /\ Len(sent[2]) < max_query

\* C3: the destination file is written while it exists only if the last
\* answer to the prompt was the empty input; a non-empty answer only
\* becomes the destination, which is tested again before any write.
C3_NoSilentOverwrite ==
    /\ written # NoWrite =>
          /\ written.path = bib_file
          /\ written.existed => user_in = ""
    /\ (pc = "write" /\ user_in # NoInput) =>
          /\ user_in # ""
          /\ bib_file = user_in
          /\ written = NoWrite

\* C3's case: the answer named another existing file, and that file was
\* written after an empty answer to the next prompt.
C3_Witness ==
    /\ written # NoWrite
    /\ written.existed
    /\ written.path = "other.bib"
    /\ user_in = ""

\* C4: a request that was answered with an error status is the last one
\* posted (no later batch, no second post of the failed one), the run is
\* aborted, the destination file is not written and _check_missing has not
\* run; the text and count accumulated are those of the earlier batches.
C4_ErrorAbortsRun ==
    /\ Len(sent) = Len(responses)
    /\ \A n \in 1..Len(responses) :
          responses[n] = "error" =>
             /\ n = Len(responses)
             /\ qi = n - 1
             /\ pc = "aborted"
             /\ written = NoWrite
             /\ ret = NoRet
    /\ pc = "aborted" => responses[Len(responses)] = "error"

\* C4's case: a batch failed after earlier batches had succeeded.
C4_Witness ==
    /\ pc = "aborted"
    /\ Len(responses) >= 2
    /\ n_retrieved > 0
    /\ result # <<>>

-----------------------------------------------------------------------------
(* The claims about _check_missing, checked under SpecCheck.               *)

\* the '@'-header lines of the accumulated text, in order
HeaderLines ==
    SelectSeq(Split(result, "\n"), LAMBDA l : l # <<>> /\ Head(l) = "@")

\* the key of a header line: the text after its first '{' (after nothing,
\* if it has none) up to, and without, its last character
KeyOf(l) ==
    LET braces == {p \in 1..Len(l) : l[p] = "{"}
        first  == IF braces = {} THEN 0
                  ELSE CHOOSE p \in braces : \A q \in braces : p <= q
    IN  [n \in 1..Max(Len(l) - 1 - first, 0) |-> l[first + n]]

HeaderKeys == {KeyOf(HeaderLines[n]) : n \in 1..Len(HeaderLines)}

\* a header gets a warning if its key is not in the working copy: it was
\* not requested, or an earlier header had it
Warned(n) ==
    \/ KeyOf(HeaderLines[n]) \notin Range(bibcodes)
    \/ \E m \in 1..(n - 1) : KeyOf(HeaderLines[m]) = KeyOf(HeaderLines[n])

RECURSIVE WarnedKeys(_)
WarnedKeys(n) ==
    IF n = 0 THEN <<>>
    ELSE WarnedKeys(n - 1)
           \o (IF Warned(n) THEN <<KeyOf(HeaderLines[n])>> ELSE <<>>)

C7_AllFoundIsSuccess ==
    (pc = "done" /\ bibcodes # <<>> /\ Range(bibcodes) \subseteq HeaderKeys) =>
       /\ ret = "True"
       /\ missing = <<>>

=============================================================================
